---------------------------- MODULE Spec2Model ----------------------------
(***************************************************************************)
(* A model of the Switch view (src/view/switch.rs) driven through the View *)
(* protocol (new / build / rebuild / message), and of                      *)
(* ViewContext::translate_to (src/widget/raw_event.rs).                    *)
(*                                                                         *)
(* Two specifications share the module:                                    *)
(*   Spec     the Switch view under a host that constructs views, builds   *)
(*            once, rebuilds against the previous view, delivers messages; *)
(*   SpecCtx  translate_to applied to bounded f64 inputs.                  *)
(*                                                                         *)
(* An Option<T> is a sequence of length 0 (None) or 1 (Some).              *)
(***************************************************************************)
EXTENDS Integers, Sequences, FiniteSets, TLC

VARIABLES
    appState,   \* T: the application state, one boolean per field
    cx,         \* Cx: the identity-allocation context
    pc,         \* host position: "unbuilt" | "built"
    pending,    \* Option<Switch<T>>: a constructed view not yet reconciled
    view,       \* Option<Switch<T>>: the view last passed to build/rebuild
    id,         \* Option<Id>: the identity the host stores for the switch
    element,    \* Option<widget::Switch>: the retained element
    stale,      \* a message ran since the newest view was constructed
    last,       \* the last call: its arguments, what it returned
    ctx,        \* ViewContext: the receiver of translate_to
    offA,       \* Option<Point>: the first offset
    offB,       \* Option<Point>: the second offset
    ctxA,       \* Option<ViewContext>: ctx.translate_to(A)
    ctxAB,      \* Option<ViewContext>: ctx.translate_to(A).translate_to(B)
    ctxSum      \* Option<ViewContext>: ctx.translate_to(A + B)

switchVars == <<appState, cx, pc, pending, view, id, element, stale, last>>
ctxVars == <<ctx, offA, offB, ctxA, ctxAB, ctxSum>>
vars == <<appState, cx, pc, pending, view, id, element, stale, last,
          ctx, offA, offB, ctxA, ctxAB, ctxSum>>

(***************************************************************************)
(* Bounds.                                                                 *)
(***************************************************************************)
NumFields == 2      \* boolean fields of the application state
MaxId == 2          \* identities the context may have minted before build
MaxHi == 1          \* input coordinates: multiples of 2^53 up to MaxHi
MaxLo == 2          \* input coordinates: small integers up to MaxLo

Fields == 1..NumFields

(***************************************************************************)
(* src/view/switch.rs                                                      *)
(***************************************************************************)

\* struct Switch<T> { is_on, callback }: the accessor is the field it selects.
Switch(is_on, callback) == [is_on |-> is_on, callback |-> callback]

\* A faulty constructor that writes through the &mut T it was given.
Switch_new_writes(data, clicked) ==
    [view |-> Switch(data[clicked], clicked),
     data |-> [data EXCEPT ![clicked] = ~@]]

\* Switch::new(data: &mut T, clicked): reads *(clicked)(data); data is &mut,
\* so the state after the call is part of the result.
Switch_new(data, clicked) ==
    [view |-> Switch(data[clicked], clicked), data |-> data]

\* pub fn switch(data, clicked) -> Switch<T>
switch(data, clicked) == Switch_new(data, clicked)

\* ChangeFlags::default(): the empty flag set.
ChangeFlags_default == {}

\* ChangeFlags::PAINT: the on/off visual must be redrawn.
ChangeFlags_PAINT == {"PAINT"}

\* widget::Switch::new(id_path, is_on)
widget_Switch_new(id_path, is_on) == [id_path |-> id_path, is_on |-> is_on]

\* widget::Switch::set_is_on(&mut self, is_on) -> ChangeFlags
set_is_on(el, is_on) ==
    [element |-> [el EXCEPT !.is_on = is_on], flags |-> ChangeFlags_PAINT]

\* Cx::with_new_id(f): mint an identity and extend the path by it (inner, the
\* context the closure f runs in), then restore the path (cx).
with_new_id(c) ==
    LET new_id == c.next
    IN  [id |-> new_id,
         inner |-> [next |-> c.next + 1,
                    id_path |-> Append(c.id_path, new_id)],
         cx |-> [next |-> c.next + 1, id_path |-> c.id_path]]

\* A faulty build that creates the element switched off, whatever is declared.
build_off(self, c) ==
    LET r == with_new_id(c)
        el == widget_Switch_new(r.inner.id_path, FALSE)
    IN  [id |-> r.id, state |-> <<>>, element |-> el, cx |-> r.cx]

\* View::build(&self, cx) -> (Id, State, Element)
build(self, c) ==
    LET r == with_new_id(c)
        el == widget_Switch_new(r.inner.id_path, self.is_on)
    IN  [id |-> r.id, state |-> <<>>, element |-> el, cx |-> r.cx]

\* A faulty rebuild that always calls the setter.
rebuild_always_sets(self, c, prev, the_id, state, el) ==
    LET r == set_is_on(el, self.is_on)
    IN  [flags |-> r.flags, element |-> r.element, id |-> the_id,
         state |-> state, cx |-> c]

\* A faulty rebuild that never touches the element.
rebuild_never_sets(self, c, prev, the_id, state, el) ==
    [flags |-> ChangeFlags_default, element |-> el, id |-> the_id,
     state |-> state, cx |-> c]

\* A faulty rebuild that calls the setter and drops the flags it returns.
rebuild_drops_flags(self, c, prev, the_id, state, el) ==
    IF prev.is_on # self.is_on
    THEN [flags |-> ChangeFlags_default,
          element |-> set_is_on(el, self.is_on).element,
          id |-> the_id, state |-> state, cx |-> c]
    ELSE [flags |-> ChangeFlags_default, element |-> el, id |-> the_id,
          state |-> state, cx |-> c]

\* A faulty rebuild that mints a fresh identity when the value changed.
rebuild_new_id(self, c, prev, the_id, state, el) ==
    IF prev.is_on # self.is_on
    THEN LET r == set_is_on(el, self.is_on)
         IN  [flags |-> r.flags, element |-> r.element, id |-> c.next,
              state |-> state, cx |-> [c EXCEPT !.next = @ + 1]]
    ELSE [flags |-> ChangeFlags_default, element |-> el, id |-> the_id,
          state |-> state, cx |-> c]

\* View::rebuild(&self, _cx, prev, _id, _state, element) -> ChangeFlags.
\* _cx, _id, _state and element are &mut: their values after the call are
\* part of the result.
rebuild(self, c, prev, the_id, state, el) ==
    IF prev.is_on # self.is_on
    THEN LET r == set_is_on(el, self.is_on)
         IN  [flags |-> r.flags, element |-> r.element, id |-> the_id,
              state |-> state, cx |-> c]
    ELSE [flags |-> ChangeFlags_default, element |-> el, id |-> the_id,
          state |-> state, cx |-> c]

\* A faulty message that switches the field on instead of negating it.
message_sets_true(self, id_path, state, payload, app_state) ==
    [app_state |-> [app_state EXCEPT ![self.callback] = TRUE],
     result |-> "Nop", state |-> state]

\* View::message(&self, _id_path, _state, _message, app_state)
\*   -> MessageResult<A>
message(self, id_path, state, payload, app_state) ==
    [app_state |-> [app_state EXCEPT ![self.callback] = ~@],
     result |-> "Nop", state |-> state]

(***************************************************************************)
(* The host: the caller of the View protocol.                              *)
(***************************************************************************)

\* What a widget sends: the switch's own payload, or one of another kind.
Payloads == {"unit", "foreign"}

\* The id paths a message may carry: the empty remainder, the switch's own
\* identity, an identity that is not the switch's.
IdPaths == {<<>>, <<id[1]>>, <<id[1] + 1>>}

NoCall == [op |-> "none", flags |-> {}, result |-> "", appBefore |-> appState,
           elemBefore |-> <<>>, prevView |-> <<>>, idPath |-> <<>>,
           payload |-> ""]

Call(op) == [NoCall EXCEPT !.op = op]

InitSwitch ==
    /\ appState \in [Fields -> BOOLEAN]
    /\ cx \in {[next |-> n, id_path |-> <<>>] : n \in 1..MaxId}
    /\ pc = "unbuilt"
    /\ pending = <<>>
    /\ view = <<>>
    /\ id = <<>>
    /\ element = <<>>
    /\ stale = FALSE
    /\ last = NoCall

\* The host constructs a fresh view from the application state.
Construct ==
    /\ pending = <<>>
    /\ \E clicked \in Fields :
         LET r == switch(appState, clicked)
         IN  /\ pending' = <<r.view>>
             /\ appState' = r.data
    /\ stale' = FALSE
    /\ last' = Call("new")
    /\ UNCHANGED <<cx, pc, view, id, element>>
    /\ UNCHANGED ctxVars

\* The host builds the element from the constructed view, once.
Build ==
    /\ pc = "unbuilt"
    /\ pending # <<>>
    /\ LET r == build(pending[1], cx)
       IN  /\ id' = <<r.id>>
           /\ element' = <<r.element>>
           /\ cx' = r.cx
    /\ view' = pending
    /\ pending' = <<>>
    /\ pc' = "built"
    /\ last' = Call("build")
    /\ UNCHANGED <<appState, stale>>
    /\ UNCHANGED ctxVars

\* The host rebuilds the constructed view against the previous one.
Rebuild ==
    /\ pc = "built"
    /\ pending # <<>>
    /\ LET r == rebuild(pending[1], cx, view[1], id[1], <<>>, element[1])
       IN  /\ id' = <<r.id>>
           /\ element' = <<r.element>>
           /\ cx' = r.cx
           /\ last' = [Call("rebuild") EXCEPT !.flags = r.flags,
                                               !.elemBefore = element,
                                               !.prevView = view]
    /\ view' = pending
    /\ pending' = <<>>
    /\ UNCHANGED <<appState, pc, stale>>
    /\ UNCHANGED ctxVars

\* A message from the element is delivered to the current view.
Message ==
    /\ pc = "built"
    /\ \E id_path \in IdPaths, payload \in Payloads :
         LET r == message(view[1], id_path, <<>>, payload, appState)
         IN  /\ appState' = r.app_state
             /\ last' = [Call("message") EXCEPT !.result = r.result,
                                                 !.idPath = id_path,
                                                 !.payload = payload]
    /\ stale' = TRUE
    /\ UNCHANGED <<cx, pc, pending, view, id, element>>
    /\ UNCHANGED ctxVars

NextSwitch ==
    \/ Construct
    \/ Build
    \/ Rebuild
    \/ Message

(***************************************************************************)
(* f64 arithmetic (IEEE 754 binary64, round to nearest, ties to even).     *)
(* A coordinate is the integer hi * 2^53 + lo with lo small, written as    *)
(* the record [hi, lo]; 2^53 is the first magnitude at which an f64 no     *)
(* longer holds every integer. Only values of this shape arise from the    *)
(* bounded inputs, and on them the operators below are exact models of     *)
(* the hardware's addition and subtraction.                                *)
(***************************************************************************)
F(h, l) == [hi |-> h, lo |-> l]

RECURSIVE FloorLog2(_)
FloorLog2(n) == IF n <= 1 THEN 0 ELSE 1 + FloorLog2(n \div 2)

RECURSIVE Pow2(_)
Pow2(k) == IF k <= 0 THEN 1 ELSE 2 * Pow2(k - 1)

\* n / q rounded to the nearest integer, a tie going to the even one.
RoundHalfEven(n, q) ==
    LET f == n \div q
        r == n % q
    IN  IF 2 * r < q THEN f
        ELSE IF 2 * r > q THEN f + 1
        ELSE IF f % 2 = 0 THEN f ELSE f + 1

\* The f64 nearest to a positive hi * 2^53 + lo with hi >= 1: the spacing of
\* the f64s around it is 2^(k+1) for hi in [2^k, 2^(k+1)), and 2^k just
\* below hi = 2^k. hi * 2^53 is a multiple of the spacing and an even
\* multiple of it, so lo alone is rounded and decides the tie.
RoundPositive(v) ==
    LET k == FloorLog2(v.hi)
        q == IF v.lo < 0 /\ v.hi = Pow2(k) THEN Pow2(k) ELSE Pow2(k + 1)
    IN  F(v.hi, q * RoundHalfEven(v.lo, q))

\* The f64 nearest to the exact value v.
RoundF64(v) ==
    IF v.hi = 0 THEN v
    ELSE IF v.hi > 0 THEN RoundPositive(v)
    ELSE LET m == RoundPositive(F(-v.hi, -v.lo)) IN F(-m.hi, -m.lo)

\* f64 + f64
f64_add(a, b) == RoundF64(F(a.hi + b.hi, a.lo + b.lo))

\* f64 - f64
f64_sub(a, b) == RoundF64(F(a.hi - b.hi, a.lo - b.lo))

(***************************************************************************)
(* kurbo's Point, Vec2 and Rect, as src/widget/raw_event.rs uses them.     *)
(***************************************************************************)
Point(x, y) == [x |-> x, y |-> y]

Rect(x0, y0, x1, y1) == [x0 |-> x0, y0 |-> y0, x1 |-> x1, y1 |-> y1]

\* Point::to_vec2
to_vec2(p) == [x |-> p.x, y |-> p.y]

\* Point + Vec2
Point_add(p, v) == Point(f64_add(p.x, v.x), f64_add(p.y, v.y))

\* Point - Vec2
Point_sub(p, v) == Point(f64_sub(p.x, v.x), f64_sub(p.y, v.y))

\* Rect + Vec2
Rect_add(r, v) ==
    Rect(f64_add(r.x0, v.x), f64_add(r.y0, v.y),
         f64_add(r.x1, v.x), f64_add(r.y1, v.y))

\* Rect - Vec2
Rect_sub(r, v) ==
    Rect(f64_sub(r.x0, v.x), f64_sub(r.y0, v.y),
         f64_sub(r.x1, v.x), f64_sub(r.y1, v.y))

\* Option<Point>::map(|p| p - translate)
map_sub(o, translate) ==
    IF o = <<>> THEN <<>> ELSE <<Point_sub(o[1], translate)>>

\* struct ViewContext { window_origin, clip, mouse_position }
ViewContext(window_origin, clip, mouse_position) ==
    [window_origin |-> window_origin, clip |-> clip,
     mouse_position |-> mouse_position]

\* A faulty translate_to that takes the offset as the new window origin.
translate_to_resets_origin(self, new_origin) ==
    LET translate == to_vec2(new_origin)
    IN  ViewContext(new_origin,
                    Rect_sub(self.clip, translate),
                    map_sub(self.mouse_position, translate))

\* A faulty translate_to that moves the clip the wrong way.
translate_to_adds_clip(self, new_origin) ==
    LET translate == to_vec2(new_origin)
    IN  ViewContext(Point_add(self.window_origin, translate),
                    Rect_add(self.clip, translate),
                    map_sub(self.mouse_position, translate))

\* ViewContext::translate_to(&self, new_origin: Point) -> ViewContext
translate_to(self, new_origin) ==
    LET translate == to_vec2(new_origin)
    IN  ViewContext(Point_add(self.window_origin, translate),
                    Rect_sub(self.clip, translate),
                    map_sub(self.mouse_position, translate))

(***************************************************************************)
(* Inputs of translate_to.                                                 *)
(***************************************************************************)
\* The f64 values hi * 2^53 + lo within the bounds.
Scalars ==
    {v \in {F(h, l) : h \in 0..MaxHi, l \in 0..MaxLo} : RoundF64(v) = v}

Points == {Point(s, t) : s, t \in Scalars}

\* The context and the offset of the documented example.
ExampleCtx ==
    ViewContext(Point(F(0, 10), F(0, 10)),
                Rect(F(0, 0), F(0, 0), F(0, 50), F(0, 50)),
                <<>>)

ExampleOffset == Point(F(0, 5), F(0, 5))

Offsets == Points \cup {ExampleOffset}

Contexts ==
    {ViewContext(Point(s, t), Rect(F(0, 0), t, s, s), <<>>) :
        s, t \in Scalars}
    \cup {ViewContext(Point(s, t), Rect(F(0, 0), t, s, s), <<Point(t, s)>>) :
        s, t \in Scalars}
    \cup {ExampleCtx}

InitCtx ==
    /\ ctx \in Contexts
    /\ offA = <<>>
    /\ offB = <<>>
    /\ ctxA = <<>>
    /\ ctxAB = <<>>
    /\ ctxSum = <<>>

\* The view context no translation is applied to.
CtxIdle ==
    /\ ctx = ExampleCtx
    /\ offA = <<>>
    /\ offB = <<>>
    /\ ctxA = <<>>
    /\ ctxAB = <<>>
    /\ ctxSum = <<>>

\* The application no view is built for.
SwitchIdle ==
    /\ appState = [f \in Fields |-> FALSE]
    /\ cx = [next |-> 1, id_path |-> <<>>]
    /\ pc = "unbuilt"
    /\ pending = <<>>
    /\ view = <<>>
    /\ id = <<>>
    /\ element = <<>>
    /\ stale = FALSE
    /\ last = NoCall

\* ctx.translate_to(A)
TranslateFirst ==
    /\ offA = <<>>
    /\ \E a \in Offsets :
         /\ offA' = <<a>>
         /\ ctxA' = <<translate_to(ctx, a)>>
    /\ UNCHANGED <<ctx, offB, ctxAB, ctxSum>>
    /\ UNCHANGED switchVars

\* ctx.translate_to(A).translate_to(B)
TranslateSecond ==
    /\ offA # <<>>
    /\ offB = <<>>
    /\ \E b \in Offsets :
         /\ offB' = <<b>>
         /\ ctxAB' = <<translate_to(ctxA[1], b)>>
    /\ UNCHANGED <<ctx, offA, ctxA, ctxSum>>
    /\ UNCHANGED switchVars

\* ctx.translate_to(A + B), the sum taken in f64 as the code would take it.
TranslateCombined ==
    /\ offB # <<>>
    /\ ctxSum = <<>>
    /\ ctxSum' = <<translate_to(ctx, Point_add(offA[1], to_vec2(offB[1])))>>
    /\ UNCHANGED <<ctx, offA, offB, ctxA, ctxAB>>
    /\ UNCHANGED switchVars

NextCtx ==
    \/ TranslateFirst
    \/ TranslateSecond
    \/ TranslateCombined

Init == InitSwitch /\ CtxIdle

Next == NextSwitch

Spec == Init /\ [][Next]_vars

InitTranslate == InitCtx /\ SwitchIdle

SpecCtx == InitTranslate /\ [][NextCtx]_vars

(***************************************************************************)
(* Properties of the Switch view, checked under Spec.                      *)
(***************************************************************************)

\* C1: message negates exactly the field the view's accessor selects, leaves
\* every other field as it was, and returns MessageResult::Nop, whatever the
\* application state, the id path and the payload.
C1_MessageNegatesSelectedField ==
    last.op = "message" =>
        /\ last.result = "Nop"
        /\ appState[view[1].callback] = ~last.appBefore[view[1].callback]
        /\ \A f \in Fields \ {view[1].callback} :
               appState[f] = last.appBefore[f]

\* C1 witness: a message has turned a field that was off on.
C1_Witness ==
    /\ last.op = "message"
    /\ last.appBefore[view[1].callback] = FALSE
    /\ appState[view[1].callback] = TRUE

\* A message whose payload is of another kind, or whose id path names an
\* identity that is not the switch's.
ForeignDelivery ==
    /\ last.op = "message"
    /\ \/ last.payload = "foreign"
       \/ last.idPath = <<id[1] + 1>>

\* C2: a message whose payload the node does not recognize, or whose id path
\* does not match the node, returns the inert result and leaves the
\* application state unchanged.
C2_ForeignMessageIsInert ==
    ForeignDelivery =>
        /\ last.result \in {"Nop", "Stale"}
        /\ appState = last.appBefore

\* C3: a rebuild whose previous view declares the same is_on returns the
\* empty ChangeFlags and leaves the element as it was.
C3_RebuildSameValueIsNoop ==
    (last.op = "rebuild" /\ last.prevView[1].is_on = view[1].is_on) =>
        /\ last.flags = {}
        /\ element = last.elemBefore

\* C3 witness: a rebuild with an unchanged declared value, the element on.
C3_Witness ==
    /\ last.op = "rebuild"
    /\ last.prevView[1].is_on = view[1].is_on
    /\ element[1].is_on = TRUE
    /\ last.flags = {}

\* C4: a rebuild whose declared is_on differs from the value the element
\* displays sets the element to the declared value and returns a non-empty
\* flag set.
C4_RebuildUpdatesElement ==
    (last.op = "rebuild" /\ view[1].is_on # last.elemBefore[1].is_on) =>
        /\ element[1].is_on = view[1].is_on
        /\ last.flags # {}

\* C4 witness: a rebuild found the element off and the declared value on.
C4_Witness ==
    /\ last.op = "rebuild"
    /\ last.elemBefore[1].is_on = FALSE
    /\ view[1].is_on = TRUE
    /\ element[1].is_on = TRUE

\* The rebuild that follows a flip from false to true: the previous view
\* declared false, the fresh view of the same accessor declares true.
RebuildAfterFlip ==
    /\ last.op = "rebuild"
    /\ ~stale
    /\ last.prevView[1].is_on = FALSE
    /\ view[1].is_on = TRUE
    /\ view[1].callback = last.prevView[1].callback

\* C5 as stated: the rebuild that follows a flip from false to true returns
\* the empty change-flag set.
C5_RebuildAfterFlipIsEmpty ==
    RebuildAfterFlip => last.flags = {}

\* C5 as amended: the rebuild that follows a flip from false to true turns
\* the element on and returns a non-empty change-flag set.
C5_RebuildAfterFlipRepaints ==
    RebuildAfterFlip =>
        /\ last.flags # {}
        /\ last.elemBefore[1].is_on = FALSE
        /\ element[1].is_on = TRUE

\* C5 witness: such a rebuild has run, the flipped field being on.
C5_Witness ==
    /\ RebuildAfterFlip
    /\ appState[view[1].callback] = TRUE
    /\ last.flags = {"PAINT"}

\* C8: the application state changes only in a step that is a message call;
\* constructing a view, build and rebuild leave it as it was.
C8_StateChangesOnlyInMessage ==
    [][appState' # appState => last'.op = "message"]_vars

\* C8 witness: a view was constructed after a message changed the state, and
\* the construction left the state as it was.
C8_Witness ==
    /\ last.op = "new"
    /\ pc = "built"
    /\ appState = last.appBefore
    /\ pending[1].is_on # view[1].is_on

\* C9: build takes the identity the allocation context mints, and a rebuild
\* leaves the stored identity as it was.
C9_IdentityStable ==
    [][/\ last'.op = "build" =>
            /\ id' = <<cx.next>>
            /\ element'[1].id_path = Append(cx.id_path, cx.next)
       /\ last'.op = "rebuild" => id' = id]_vars

\* C9 witness: a rebuild that changed the element has run and the identity
\* is still the one build minted.
C9_Witness ==
    /\ last.op = "rebuild"
    /\ last.flags # {}
    /\ id = <<cx.next - 1>>

\* C10: after build and after a rebuild of a view constructed from the
\* current application state, the element shows the boolean the accessor
\* selects.
C10_ElementInSync ==
    (last.op \in {"build", "rebuild"} /\ ~stale) =>
        element[1].is_on = appState[view[1].callback]

\* C10 witness: a message, then a rebuild of a fresh view, and the element
\* shows the new value of the field.
C10_Witness ==
    /\ last.op = "rebuild"
    /\ ~stale
    /\ last.elemBefore[1].is_on # element[1].is_on
    /\ element[1].is_on = appState[view[1].callback]

(***************************************************************************)
(* Properties of translate_to, checked under SpecCtx.                      *)
(***************************************************************************)

CoordsOfPoint(p) == {p.x, p.y}

CoordsOfContext(c) ==
    CoordsOfPoint(c.window_origin)
    \cup {c.clip.x0, c.clip.y0, c.clip.x1, c.clip.y1}
    \cup (IF c.mouse_position = <<>> THEN {}
          ELSE CoordsOfPoint(c.mouse_position[1]))

\* Every input coordinate is a small integer, so that every sum and
\* difference translate_to takes is an integer below 2^53 and exact.
ExactInputs ==
    \A v \in CoordsOfContext(ctx) \cup CoordsOfPoint(offA[1])
             \cup CoordsOfPoint(offB[1]) : v.hi = 0

\* C6 as stated: translating by A and then by B equals translating once by
\* A + B, in all three fields, for every context and all offsets.
C6_TranslateComposes ==
    ctxSum # <<>> => ctxAB = ctxSum

\* C6 as amended: translating by A and then by B equals translating once by
\* A + B, in all three fields, when the coordinates are integers small
\* enough for every sum to be exact.
C6_TranslateComposesWhenExact ==
    (ctxSum # <<>> /\ ExactInputs) => ctxAB = ctxSum

\* C6 witness: two non-zero small offsets applied to a context without a
\* mouse position, and both routes agree.
C6_Witness ==
    /\ ctxSum # <<>>
    /\ ExactInputs
    /\ ctx.mouse_position = <<>>
    /\ offA[1].x.lo > 0
    /\ offB[1].y.lo > 0
    /\ ctxAB = ctxSum

\* The clip and the origin of the documented example after its translation.
ExampleResult ==
    ViewContext(Point(F(0, 15), F(0, 15)),
                Rect(F(0, -5), F(0, -5), F(0, 45), F(0, 45)),
                <<>>)

\* What C7 says of a context c translated by o into r.
TranslatedAsStated(c, o, r) ==
    /\ r.window_origin.x = f64_add(c.window_origin.x, o.x)
    /\ r.window_origin.y = f64_add(c.window_origin.y, o.y)
    /\ r.clip.x0 = f64_sub(c.clip.x0, o.x)
    /\ r.clip.y0 = f64_sub(c.clip.y0, o.y)
    /\ r.clip.x1 = f64_sub(c.clip.x1, o.x)
    /\ r.clip.y1 = f64_sub(c.clip.y1, o.y)
    /\ (r.mouse_position = <<>>) <=> (c.mouse_position = <<>>)
    /\ c.mouse_position # <<>> =>
          /\ r.mouse_position[1].x = f64_sub(c.mouse_position[1].x, o.x)
          /\ r.mouse_position[1].y = f64_sub(c.mouse_position[1].y, o.y)

\* What C7 says in plain integers, where every coordinate is small.
TranslatedInIntegers(c, o, r) ==
    (\A v \in CoordsOfContext(c) \cup CoordsOfPoint(o) : v.hi = 0) =>
        /\ \A v \in CoordsOfContext(r) : v.hi = 0
        /\ r.window_origin.x.lo = c.window_origin.x.lo + o.x.lo
        /\ r.window_origin.y.lo = c.window_origin.y.lo + o.y.lo
        /\ r.clip.x0.lo = c.clip.x0.lo - o.x.lo
        /\ r.clip.y0.lo = c.clip.y0.lo - o.y.lo
        /\ r.clip.x1.lo = c.clip.x1.lo - o.x.lo
        /\ r.clip.y1.lo = c.clip.y1.lo - o.y.lo
        /\ c.mouse_position # <<>> =>
              /\ r.mouse_position[1].x.lo = c.mouse_position[1].x.lo - o.x.lo
              /\ r.mouse_position[1].y.lo = c.mouse_position[1].y.lo - o.y.lo

\* C7: translate_to(o) returns a context whose window_origin is the old one
\* plus o, whose clip is the old one with o subtracted from every corner and
\* whose mouse_position is the old one minus o, or absent when it was
\* absent; origin (10,10), clip (0,0,50,50), offset (5,5) give origin
\* (15,15), clip (-5,-5,45,45); the receiver is not modified.
C7_TranslateFields ==
    /\ [](ctxA # <<>> =>
            /\ TranslatedAsStated(ctx, offA[1], ctxA[1])
            /\ TranslatedInIntegers(ctx, offA[1], ctxA[1])
            /\ (ctx = ExampleCtx /\ offA[1] = ExampleOffset) =>
                   ctxA[1] = ExampleResult)
    /\ [](ctxAB # <<>> => TranslatedAsStated(ctxA[1], offB[1], ctxAB[1]))
    /\ [][ctx' = ctx /\ (ctxA # <<>> => ctxA' = ctxA)]_vars

\* C7 witness: the documented example has been translated.
C7_Witness ==
    /\ ctx = ExampleCtx
    /\ offA = <<ExampleOffset>>
    /\ ctxA[1].window_origin = Point(F(0, 15), F(0, 15))
    /\ ctxA[1].clip = Rect(F(0, -5), F(0, -5), F(0, 45), F(0, 45))

=============================================================================
